---- MODULE Spec2Model ----
(***************************************************************************)
(* Ancestor and descendant mappings for tissues and cell types             *)
(* (scripts/compute_mappings/compute_tissue_and_cell_type_mappings.py).    *)
(*                                                                         *)
(* Five parts of the script are modelled, each under its own               *)
(* specification:                                                          *)
(*   SpecCodec    reformat_ontology_term_id                                *)
(*   Spec         build_graph_for_cell_types / build_graph_for_tissues     *)
(*   SpecClosure  list_ancestors / list_descendants                        *)
(*   SpecTier     write_descendants_by_entity                              *)
(*   SpecAncestors  the production-term load and key_ancestors_by_entity   *)
(*                                                                         *)
(* A Python str is a sequence of tokens: one token per character, except   *)
(* that the two qualifiers "(organoid)" and "(cell culture)" are one token *)
(* each (the script only ever tests for them and removes them whole).      *)
(***************************************************************************)
EXTENDS Integers, Sequences, FiniteSets, Bags, TLC

VARIABLES
    codec,          \* one call of reformat_ontology_term_id and the call back
    provider,       \* the ontology: entity name -> the rows its child query returns
    traversal,      \* "is_a" (cell types) or "is_a_or_part_of" (tissues)
    entity_names,   \* the anchor list handed to build_graph_for_*
    next_anchor,    \* position of the for loop over entity_names
    graph,          \* the pgv.AGraph under construction
    stack,          \* call stack of build_descendants*_graph
    queries,        \* number of child queries issued per entity name
    bpc,            \* position of the build
    closure,        \* one call of list_ancestors and of list_descendants
    tier,           \* one run of write_descendants_by_entity
    anc             \* the production-term load and key_ancestors_by_entity

buildVars == <<provider, traversal, entity_names, next_anchor, graph, stack, queries, bpc>>
vars == <<codec, provider, traversal, entity_names, next_anchor, graph, stack,
          queries, bpc, closure, tier, anc>>

\* A component that takes no part in the specification at hand.
Idle == [pc |-> "idle"]

BuildIdle ==
    /\ provider = <<>>
    /\ traversal = "is_a"
    /\ entity_names = <<>>
    /\ next_anchor = 1
    /\ graph = [nodes |-> {}, edges |-> {}]
    /\ stack = <<>>
    /\ queries = <<>>
    /\ bpc = "idle"

(***************************************************************************)
(* Strings                                                                 *)
(***************************************************************************)

\* Longest identifier the codec is tried on.
MaxLen == 3

\* str.count(ch)
RECURSIVE Count(_, _)
Count(s, ch) ==
    IF s = <<>> THEN 0
    ELSE (IF Head(s) = ch THEN 1 ELSE 0) + Count(Tail(s), ch)

\* str.replace(old, new) for a one-character old: every occurrence is replaced.
ReplaceChar(s, old, new) ==
    [i \in 1..Len(s) |-> IF s[i] = old THEN new ELSE s[i]]

\* sub in s
Contains(s, sub) ==
    \E i \in 1..(Len(s) - Len(sub) + 1) : SubSeq(s, i, i + Len(sub) - 1) = sub

\* str.replace(old, ""): occurrences are removed left to right, without overlap.
RECURSIVE Remove(_, _)
Remove(s, old) ==
    IF Len(s) < Len(old) THEN s
    ELSE IF SubSeq(s, 1, Len(old)) = old
         THEN Remove(SubSeq(s, Len(old) + 1, Len(s)), old)
         ELSE <<Head(s)>> \o Remove(Tail(s), old)

\* All strings over alphabet of length at most n.
StringsUpTo(alphabet, n) == UNION {[1..k -> alphabet] : k \in 0..n}

(***************************************************************************)
(* Term identifier codec                                                   *)
(***************************************************************************)

Return(v) == [raised |-> "none", value |-> v]
Raise(e)  == [raised |-> e, value |-> <<>>]

\* Mutation: the separator count is only checked to be at least one.
ReformatLoose(ontology_term_id, to_writable) ==
    IF to_writable
    THEN IF Count(ontology_term_id, "_") < 1
         THEN Raise("ValueError")
         ELSE Return(ReplaceChar(ontology_term_id, "_", ":"))
    ELSE IF Count(ontology_term_id, ":") < 1
         THEN Raise("ValueError")
         ELSE Return(ReplaceChar(ontology_term_id, ":", "_"))

\* Mutation: to_writable replaces "_" by "_" (the replacement is lost).
ReformatNoReplace(ontology_term_id, to_writable) ==
    IF to_writable
    THEN IF Count(ontology_term_id, "_") # 1
         THEN Raise("ValueError")
         ELSE Return(ontology_term_id)
    ELSE IF Count(ontology_term_id, ":") # 1
         THEN Raise("ValueError")
         ELSE Return(ReplaceChar(ontology_term_id, ":", "_"))

reformat_ontology_term_id(ontology_term_id, to_writable) ==
    IF to_writable
    THEN IF Count(ontology_term_id, "_") # 1
         THEN Raise("ValueError")
         ELSE Return(ReplaceChar(ontology_term_id, "_", ":"))
    ELSE IF Count(ontology_term_id, ":") # 1
         THEN Raise("ValueError")
         ELSE Return(ReplaceChar(ontology_term_id, ":", "_"))

CodecAlphabet == {"U", "1", "_", ":"}

InitCodec ==
    /\ codec \in [pc : {"call"},
                  ontology_term_id : StringsUpTo(CodecAlphabet, MaxLen),
                  to_writable : BOOLEAN,
                  result : {Raise("pending")},
                  back : {Raise("pending")}]
    /\ BuildIdle
    /\ closure = Idle
    /\ tier = Idle
    /\ anc = Idle

\* reformat_ontology_term_id(ontology_term_id, to_writable)
Reformat ==
    /\ codec.pc = "call"
    /\ codec' = [codec EXCEPT
                   !.result = reformat_ontology_term_id(codec.ontology_term_id, codec.to_writable),
                   !.pc = "converted"]
    /\ UNCHANGED <<buildVars, closure, tier, anc>>

\* The opposite conversion applied to the value the first call returned.
ReformatBack ==
    /\ codec.pc = "converted"
    /\ codec.result.raised = "none"
    /\ codec' = [codec EXCEPT
                   !.back = reformat_ontology_term_id(codec.result.value, ~codec.to_writable),
                   !.pc = "restored"]
    /\ UNCHANGED <<buildVars, closure, tier, anc>>

NextCodec == Reformat \/ ReformatBack

SpecCodec == InitCodec /\ [][NextCodec]_vars

\* C1 (as stated): an identifier with exactly one "_" survives to_writable then
\* to_internal unchanged, and one with exactly one ":" survives to_internal then
\* to_writable unchanged; neither conversion fails.
C1_RoundTripOneSeparator ==
    LET sep == IF codec.to_writable THEN "_" ELSE ":" IN
    (codec.pc \in {"converted", "restored"} /\ Count(codec.ontology_term_id, sep) = 1)
        => /\ codec.result.raised = "none"
           /\ codec.pc = "restored" =>
                 codec.back = Return(codec.ontology_term_id)

\* C1 (amended): the round trip holds for an identifier that has exactly one
\* separator of its own form and none of the other form.
C1_RoundTripWellFormed ==
    LET sep   == IF codec.to_writable THEN "_" ELSE ":"
        other == IF codec.to_writable THEN ":" ELSE "_" IN
    (/\ codec.pc \in {"converted", "restored"}
     /\ Count(codec.ontology_term_id, sep) = 1
     /\ Count(codec.ontology_term_id, other) = 0)
        => /\ codec.result.raised = "none"
           /\ codec.pc = "restored" =>
                 codec.back = Return(codec.ontology_term_id)

C1_Witness ==
    /\ codec.pc = "restored"
    /\ codec.ontology_term_id = <<"U", "_", "1">>
    /\ codec.to_writable
    /\ codec.result = Return(<<"U", ":", "1">>)
    /\ codec.back = Return(<<"U", "_", "1">>)

\* C2: to_writable raises, returning nothing, whenever the number of "_" is not
\* one, and to_internal whenever the number of ":" is not one.
C2_Rejection ==
    LET sep == IF codec.to_writable THEN "_" ELSE ":" IN
    (codec.pc \in {"converted", "restored"} /\ Count(codec.ontology_term_id, sep) # 1)
        => codec.result = Raise("ValueError")

C2_Witness ==
    /\ codec.pc = "converted"
    /\ codec.ontology_term_id = <<"_", "1", "_">>
    /\ codec.to_writable
    /\ codec.result = Raise("ValueError")

(***************************************************************************)
(* Term names                                                              *)
(***************************************************************************)

A == <<"U", "_", "1">>
B == <<"U", "_", "2">>
C == <<"U", "_", "3">>
ORGANOID == <<"(organoid)">>
CELL_CULTURE == <<"(cell culture)">>
Organoid(stem) == stem \o <<" ">> \o ORGANOID
CellCulture(stem) == stem \o <<" ">> \o CELL_CULTURE
Nothing == <<"N", "o", "t", "h", "i", "n", "g">>

is_cell_culture(entity_name) == Contains(entity_name, CELL_CULTURE)

is_organoid(entity_name) == Contains(entity_name, ORGANOID)

\* Mutation: only the cell-culture qualifier is recognised.
CellCultureOnly(entity_name) == is_cell_culture(entity_name)

is_cell_culture_or_organoid(entity_name) ==
    is_cell_culture(entity_name) \/ is_organoid(entity_name)

(***************************************************************************)
(* pgv.AGraph(): pygraphviz' default graph is strict and undirected.  An   *)
(* edge keeps the orientation it was created with (predecessors and        *)
(* successors read in- and out-edges), but a strict undirected graph holds *)
(* at most one edge between two nodes, whichever way it was first added.   *)
(***************************************************************************)

EmptyGraph == [nodes |-> {}, edges |-> {}]

add_node(g, n) == [g EXCEPT !.nodes = @ \cup {n}]

\* Mutation: no node is ever found in the graph.
NodeNeverSeen(g, n) == FALSE

has_node(g, n) == n \in g.nodes

add_edge(g, u, v) ==
    [nodes |-> g.nodes \cup {u, v},
     edges |-> IF <<u, v>> \in g.edges \/ <<v, u>> \in g.edges
               THEN g.edges
               ELSE g.edges \cup {<<u, v>>}]

\* Both raise KeyError for a node that is not in the graph; the callers test
\* has_node first.
predecessors(g, n) == {e[1] : e \in {d \in g.edges : d[2] = n}}

successors(g, n) == {e[2] : e \in {d \in g.edges : d[1] = n}}

\* f with the count of key k raised by one.
Bump(f, k) ==
    IF k \in DOMAIN f THEN [f EXCEPT ![k] = @ + 1] ELSE f @@ (k :> 1)

(***************************************************************************)
(* Subgraph builder                                                        *)
(***************************************************************************)

\* Largest number of parent->child pairs of the ontology.
MaxEdges == 3
\* Longest anchor list.
MaxAnchors == 2

BuildNodes == {A, B, C}

Entity(name) == [name |-> name, axiom |-> FALSE]
Axiom == [name |-> <<>>, axiom |-> TRUE]

\* Rows of a part_of query that are no single named class.
JunkRows == {<<>>, <<Entity(A), Entity(B)>>, <<Axiom>>, <<Entity(Nothing)>>}

Relations(nodes, n) == {r \in SUBSET (nodes \X nodes) : Cardinality(r) <= n}

\* The rows the child query of every entity returns, for child relation r and
\* the irregular rows junk.
ProviderOf(r, junk) ==
    [e \in BuildNodes |-> {<<Entity(d[2])>> : d \in {x \in r : x[1] = e}} \cup junk]

\* is_axiom
is_axiom(entity) == entity.axiom

\* The child named by a row, as build_descendants_and_parts_graph reads it;
\* <<>> for a row it skips.
ValidChild(row) ==
    IF Len(row) = 0 \/ Len(row) > 1 THEN <<>>
    ELSE IF is_axiom(row[1]) THEN <<>>
    ELSE IF row[1].name = Nothing THEN <<>>
    ELSE row[1].name

\* The child a row names for the traversal at hand: build_descendants_graph
\* takes every subclass by its name.
ChildOf(row) ==
    IF traversal = "is_a" THEN row[1].name ELSE ValidChild(row)

Init ==
    /\ codec = Idle
    /\ closure = Idle
    /\ tier = Idle
    /\ anc = Idle
    /\ traversal \in {"is_a", "is_a_or_part_of"}
    /\ \E r \in Relations(BuildNodes, MaxEdges) :
         \E junk \in {{}} \cup {{j} : j \in JunkRows} :
            /\ traversal = "is_a" => junk = {}
            /\ provider = ProviderOf(r, junk)
    /\ entity_names \in UNION {[1..k -> BuildNodes] : k \in 1..MaxAnchors}
    /\ next_anchor = 1
    /\ graph = EmptyGraph
    /\ stack = <<>>
    /\ queries = <<>>
    /\ bpc = "build"

Top == stack[Len(stack)]
Rest(row) == [stack EXCEPT ![Len(stack)].rows = @ \ {row}]

\* for entity_name in entity_names: build_descendants*_graph(entity_name, graph).
\* On entry the node is added, its children are queried and the loop over them
\* starts.
BuildAnchor ==
    /\ bpc = "build"
    /\ stack = <<>>
    /\ next_anchor <= Len(entity_names)
    /\ graph' = add_node(graph, entity_names[next_anchor])
    /\ queries' = Bump(queries, entity_names[next_anchor])
    /\ stack' = <<[entity_name |-> entity_names[next_anchor],
                   rows |-> provider[entity_names[next_anchor]]]>>
    /\ next_anchor' = next_anchor + 1
    /\ UNCHANGED <<codec, closure, tier, anc, provider, traversal, entity_names, bpc>>

\* A row that is no single named class is reported and skipped.
SkipInvalidChild ==
    /\ bpc = "build"
    /\ stack # <<>>
    /\ \E row \in Top.rows :
         /\ ChildOf(row) = <<>>
         /\ stack' = Rest(row)
    /\ UNCHANGED <<codec, closure, tier, anc, provider, traversal, entity_names,
                   next_anchor, graph, queries, bpc>>

\* A child already in the graph gets its edge and is not built again.
AddVisitedChild ==
    /\ bpc = "build"
    /\ stack # <<>>
    /\ \E row \in Top.rows :
         /\ ChildOf(row) # <<>>
         /\ has_node(graph, ChildOf(row))
         /\ graph' = add_edge(graph, Top.entity_name, ChildOf(row))
         /\ stack' = Rest(row)
    /\ UNCHANGED <<codec, closure, tier, anc, provider, traversal, entity_names,
                   next_anchor, queries, bpc>>

\* A child not yet in the graph gets its edge and is built recursively.
ExpandChild ==
    /\ bpc = "build"
    /\ stack # <<>>
    /\ \E row \in Top.rows :
         /\ ChildOf(row) # <<>>
         /\ ~has_node(graph, ChildOf(row))
         /\ graph' = add_node(add_edge(graph, Top.entity_name, ChildOf(row)), ChildOf(row))
         /\ queries' = Bump(queries, ChildOf(row))
         /\ stack' = Append(Rest(row),
                            [entity_name |-> ChildOf(row), rows |-> provider[ChildOf(row)]])
    /\ UNCHANGED <<codec, closure, tier, anc, provider, traversal, entity_names,
                   next_anchor, bpc>>

\* The loop over the children is over: the call returns.
ReturnFromBuild ==
    /\ bpc = "build"
    /\ stack # <<>>
    /\ Top.rows = {}
    /\ stack' = SubSeq(stack, 1, Len(stack) - 1)
    /\ UNCHANGED <<codec, closure, tier, anc, provider, traversal, entity_names,
                   next_anchor, graph, queries, bpc>>

\* return graph
BuildDone ==
    /\ bpc = "build"
    /\ stack = <<>>
    /\ next_anchor > Len(entity_names)
    /\ bpc' = "done"
    /\ UNCHANGED <<codec, closure, tier, anc, provider, traversal, entity_names,
                   next_anchor, graph, stack, queries>>

Next ==
    \/ BuildAnchor
    \/ SkipInvalidChild
    \/ AddVisitedChild
    \/ ExpandChild
    \/ ReturnFromBuild
    \/ BuildDone

Spec == Init /\ [][Next]_vars

\* C3: during one build the child query is issued at most once for every node,
\* also when anchors repeat or an anchor descends from an earlier anchor.
C3_NoReExpansion ==
    \A n \in DOMAIN queries : queries[n] <= 1

(***************************************************************************)
(* Closure engine: list_ancestors and list_descendants                     *)
(***************************************************************************)

\* Depth at which Python gives up a recursion (sys.getrecursionlimit(), scaled
\* to the graphs tried here: no path without a repeated node is that long).
RecursionLimit == 5

\* The accumulator of one traversal: the set passed by reference, the number
\* of graph lookups per node, the names reported as not found, and the
\* exception that ended the call, if any.
Fresh == [set |-> {}, lookups |-> <<>>, log |-> {}, raised |-> "none"]
NotCalled == [set |-> {}, lookups |-> <<>>, log |-> {}, raised |-> "pending"]

RECURSIVE list_ancestors(_, _, _, _)
RECURSIVE AncestorsOfEach(_, _, _, _)

\* Mutation: only the direct predecessors are collected.
ListAncestorsDirect(entity_name, g, st, depth) ==
    IF is_cell_culture_or_organoid(entity_name) \/ ~has_node(g, entity_name)
    THEN [st EXCEPT !.set = @ \cup {entity_name}]
    ELSE [st EXCEPT !.set = @ \cup {entity_name} \cup predecessors(g, entity_name),
                    !.lookups = Bump(@, entity_name)]

\* list_ancestors(entity_name, graph, ancestor_set), called at recursion depth
\* `depth`.
list_ancestors(entity_name, g, st, depth) ==
    IF st.raised # "none" THEN st
    ELSE IF depth > RecursionLimit THEN [st EXCEPT !.raised = "RecursionError"]
    ELSE LET added == [st EXCEPT !.set = @ \cup {entity_name}] IN
         IF is_cell_culture_or_organoid(entity_name) THEN added
         ELSE LET looked == [added EXCEPT !.lookups = Bump(@, entity_name)] IN
              IF ~has_node(g, entity_name)
              THEN [looked EXCEPT !.log = @ \cup {entity_name}]
              ELSE AncestorsOfEach(predecessors(g, entity_name), g, looked, depth + 1)

\* for ancestor_entity in ancestor_entities: list_ancestors(ancestor_entity, ...)
AncestorsOfEach(todo, g, st, depth) ==
    IF todo = {} THEN st
    ELSE LET ancestor_entity == CHOOSE x \in todo : TRUE IN
         AncestorsOfEach(todo \ {ancestor_entity}, g,
                         list_ancestors(ancestor_entity, g, st, depth), depth)

RECURSIVE list_descendants(_, _, _, _)
RECURSIVE DescendantsOfEach(_, _, _, _)

\* Mutation: the KeyError of graph.successors is not caught.
ListDescendantsUncaught(entity_name, g, st, depth) ==
    IF st.raised # "none" THEN st
    ELSE IF depth > RecursionLimit THEN [st EXCEPT !.raised = "RecursionError"]
    ELSE IF is_cell_culture(entity_name) \/ is_organoid(entity_name) THEN st
    ELSE LET looked == [st EXCEPT !.lookups = Bump(@, entity_name)] IN
         IF ~has_node(g, entity_name)
         THEN [looked EXCEPT !.raised = "KeyError"]
         ELSE DescendantsOfEach(successors(g, entity_name), g,
                                [looked EXCEPT !.set = @ \cup successors(g, entity_name)],
                                depth + 1)

\* list_descendants(entity_name, graph, all_successors), called at recursion
\* depth `depth`.
list_descendants(entity_name, g, st, depth) ==
    IF st.raised # "none" THEN st
    ELSE IF depth > RecursionLimit THEN [st EXCEPT !.raised = "RecursionError"]
    ELSE IF is_cell_culture(entity_name) \/ is_organoid(entity_name) THEN st
    ELSE LET looked == [st EXCEPT !.lookups = Bump(@, entity_name)] IN
         IF ~has_node(g, entity_name)
         THEN [looked EXCEPT !.log = @ \cup {entity_name}]
         ELSE DescendantsOfEach(successors(g, entity_name), g,
                                [looked EXCEPT !.set = @ \cup successors(g, entity_name)],
                                depth + 1)

\* for successor in successors: list_descendants(successor, ...)
DescendantsOfEach(todo, g, st, depth) ==
    IF todo = {} THEN st
    ELSE LET successor == CHOOSE x \in todo : TRUE IN
         DescendantsOfEach(todo \ {successor}, g,
                           list_descendants(successor, g, st, depth), depth)

ClosureNodes == {A, B, C, Organoid(C)}
ClosureTerms == ClosureNodes \cup {CellCulture(C)}

Endpoints(edges) == {e[1] : e \in edges} \cup {e[2] : e \in edges}

\* The graphs over `nodes` a build can leave behind: at most n edges, and no
\* edge beside its reverse.
Graphs(nodes, n) ==
    {[nodes |-> ns, edges |-> es] :
        ns \in SUBSET nodes,
        es \in {r \in Relations(nodes, n) : \A e \in r : e[1] # e[2] => <<e[2], e[1]>> \notin r}}

InitClosure ==
    /\ codec = Idle
    /\ BuildIdle
    /\ tier = Idle
    /\ anc = Idle
    /\ \E g \in Graphs(ClosureNodes, MaxEdges), t \in ClosureTerms :
         /\ Endpoints(g.edges) \subseteq g.nodes
         /\ closure = [pc |-> "call", graph |-> g, entity_name |-> t,
                       ancestors |-> NotCalled, descendants |-> NotCalled]

\* descendants = set(); list_ancestors(entity_name, graph, descendants)
CallListAncestors ==
    /\ closure.pc = "call"
    /\ closure.ancestors = NotCalled
    /\ closure' = [closure EXCEPT
                     !.ancestors = list_ancestors(closure.entity_name, closure.graph, Fresh, 1)]
    /\ UNCHANGED <<codec, buildVars, tier, anc>>

\* descendants = set(); list_descendants(entity_anme, graph, descendants)
CallListDescendants ==
    /\ closure.pc = "call"
    /\ closure.descendants = NotCalled
    /\ closure' = [closure EXCEPT
                     !.descendants = list_descendants(closure.entity_name, closure.graph, Fresh, 1)]
    /\ UNCHANGED <<codec, buildVars, tier, anc>>

NextClosure == CallListAncestors \/ CallListDescendants

SpecClosure == InitClosure /\ [][NextClosure]_vars

\* A name carrying the organoid or the cell-culture qualifier.
IsVariant(name) == Contains(name, ORGANOID) \/ Contains(name, CELL_CULTURE)

\* The nodes from which some node of S is reached by one edge, S included; no
\* edge is followed out of a variant.
Up(g, S) == S \cup {e[1] : e \in {d \in g.edges : d[2] \in S /\ ~IsVariant(d[2])}}

RECURSIVE Iterate(_, _, _, _)
Iterate(Step(_, _), g, S, k) == IF k = 0 THEN S ELSE Iterate(Step, g, Step(g, S), k - 1)

\* t and every node reached from t by following incoming edges.
AncestorClosure(g, t) == Iterate(Up, g, {t}, Cardinality(g.nodes))

Diamond == [nodes |-> {A, B, C}, edges |-> {<<A, B>>, <<B, C>>, <<A, C>>}]

C5_VariantTruncation ==
    (/\ closure.pc = "call"
     /\ closure.ancestors # NotCalled
     /\ IsVariant(closure.entity_name))
        => /\ closure.ancestors.raised = "none"
           /\ closure.ancestors.set = {closure.entity_name}
           /\ closure.ancestors.lookups = <<>>

C5_Witness ==
    /\ closure.pc = "call"
    /\ closure.entity_name = Organoid(C)
    /\ <<A, Organoid(C)>> \in closure.graph.edges
    /\ <<B, C>> \in closure.graph.edges
    /\ closure.ancestors.raised = "none"
    /\ closure.ancestors.set = {Organoid(C)}

\* What C6 says of the values returned for a term that is not in the graph.
MissingTermResults ==
    /\ closure.ancestors # NotCalled =>
          /\ closure.ancestors.raised = "none"
          /\ closure.ancestors.set = {closure.entity_name}
    /\ closure.descendants # NotCalled =>
          /\ closure.descendants.raised = "none"
          /\ closure.descendants.set = {}

\* C6 (as stated): for a term that is not in the graph list_ancestors returns the
\* set of that term alone and list_descendants the empty set, neither raises and
\* both report the term.
C6_MissingTermAlwaysReported ==
    (closure.pc = "call" /\ closure.entity_name \notin closure.graph.nodes)
        => /\ MissingTermResults
           /\ closure.ancestors # NotCalled =>
                 closure.entity_name \in closure.ancestors.log
           /\ closure.descendants # NotCalled =>
                 closure.entity_name \in closure.descendants.log

\* C6 (amended): as above, but the term is reported exactly when it carries no
\* organoid or cell-culture qualifier; for a variant both calls return silently.
C6_MissingTerm ==
    (closure.pc = "call" /\ closure.entity_name \notin closure.graph.nodes)
        => /\ MissingTermResults
           /\ closure.ancestors # NotCalled =>
                 closure.ancestors.log =
                     (IF IsVariant(closure.entity_name) THEN {} ELSE {closure.entity_name})
           /\ closure.descendants # NotCalled =>
                 closure.descendants.log =
                     (IF IsVariant(closure.entity_name) THEN {} ELSE {closure.entity_name})

C6_Witness ==
    /\ closure.pc = "call"
    /\ closure.entity_name = A
    /\ A \notin closure.graph.nodes
    /\ closure.graph.edges # {}
    /\ closure.ancestors = [set |-> {A}, lookups |-> (A :> 1), log |-> {A}, raised |-> "none"]
    /\ closure.descendants = [set |-> {}, lookups |-> (A :> 1), log |-> {A}, raised |-> "none"]

(***************************************************************************)
(* Tier filter: write_descendants_by_entity                                *)
(***************************************************************************)

\* Number of tiers of tissue_hierarchy and of cell_type_hierarchy.
NumTiers == 3

\* An identifier without separator, which the codec rejects.
Malformed == <<"U", "1">>

TierTerms == {A, B, C, Organoid(C), CellCulture(C), Malformed}

\* The tiers tried: empty, one term, or one of two pairs.
TierSets == {{}} \cup {{t} : t \in TierTerms} \cup {{A, B}, {C, Organoid(C)}}

\* Mutation: the index is keyed by the variant's own name, the stem is not taken.
KeyOrganoidsUnstemmed(names) ==
    [n \in {e \in names : is_organoid(e)} |-> n]

\* Mutation: the cell-culture names are registered by their stem as well.
KeyVariantsByStem(names) ==
    LET variants == {e \in names : is_cell_culture_or_organoid(e)}
        stem(e) == Remove(Remove(e, <<" ">> \o ORGANOID), <<" ">> \o CELL_CULTURE)
    IN [ontology_term_id \in {stem(e) : e \in variants} |->
            CHOOSE e \in variants : stem(e) = ontology_term_id]

\* key_organoids_by_ontology_term_id(entity_names): stem -> organoid name.  (Two
\* organoid names of one stem would leave the later one; the names tried here
\* have distinct stems.)
key_organoids_by_ontology_term_id(names) ==
    LET organoids == {e \in names : is_organoid(e)}
        stem(e) == Remove(e, <<" ">> \o ORGANOID)
    IN [ontology_term_id \in {stem(e) : e \in organoids} |->
            CHOOSE e \in organoids : stem(e) = ontology_term_id]

\* Mutation: the entity's own tier is taken into the accept list.
AcceptFromOwnTier(entity_hierarchy, idx) ==
    UNION {entity_hierarchy[j] : j \in idx..Len(entity_hierarchy)}

\* accept_list: the names of entity_hierarchy[idx + 1:], flattened.  (idx counts
\* from 1 here.)
AcceptList(entity_hierarchy, idx) ==
    UNION {entity_hierarchy[j] : j \in (idx + 1)..Len(entity_hierarchy)}

\* for descendant in descendants: the accepted descendants and the organoids
\* of descendants are appended to descendant_accept_list, a list kept here as
\* a bag (the order of a Python set is arbitrary).
RECURSIVE AcceptEach(_, _, _, _)
AcceptEach(todo, accept_list, organoids_by_ontology_term_id, descendant_accept_list) ==
    IF todo = {} THEN descendant_accept_list
    ELSE LET descendant == CHOOSE x \in todo : TRUE
             accepted == IF descendant \in accept_list
                         THEN descendant_accept_list (+) SetToBag({descendant})
                         ELSE descendant_accept_list
             spliced == IF descendant \in DOMAIN organoids_by_ontology_term_id
                        THEN accepted (+) SetToBag({organoids_by_ontology_term_id[descendant]})
                        ELSE accepted
         IN AcceptEach(todo \ {descendant}, accept_list, organoids_by_ontology_term_id, spliced)

\* [reformat_ontology_term_id(d, to_writable=True) for d in list]: the bag of
\* the converted names, or the ValueError of the first name that is rejected.
RECURSIVE SanitizeEach(_, _, _)
SanitizeEach(todo, list, sanitized) ==
    IF todo = {} THEN Return(sanitized)
    ELSE LET d == CHOOSE x \in todo : TRUE
             r == reformat_ontology_term_id(d, TRUE)
         IN IF r.raised # "none" THEN r
            ELSE SanitizeEach(todo \ {d}, list, sanitized (+) [x \in {r.value} |-> list[d]])

Sanitize(list) == SanitizeEach(BagToSet(list), list, EmptyBag)

\* Mutation: an entity is emitted whatever its list holds.
KeepAlways(descendant_accept_list) == TRUE

\* `if not descendant_accept_list: continue`
KeepEntry(descendant_accept_list) == descendant_accept_list # EmptyBag

\* The body of `for entity_anme in entity_set`: all_descendants with the entry
\* of one entity set, or the exception raised on the way.
DescendantsEntry(entity_anme, g, accept_list, organoids_by_ontology_term_id, all_descendants) ==
    LET descendants == list_descendants(entity_anme, g, Fresh, 1)
        descendant_accept_list ==
            LET of_descendants == AcceptEach(descendants.set, accept_list,
                                             organoids_by_ontology_term_id, EmptyBag)
            IN IF entity_anme \in DOMAIN organoids_by_ontology_term_id
               THEN of_descendants (+) SetToBag({organoids_by_ontology_term_id[entity_anme]})
               ELSE of_descendants
        sanitized_entity_name == reformat_ontology_term_id(entity_anme, TRUE)
        sanitized_descendants == Sanitize(descendant_accept_list)
    IN IF descendants.raised # "none" THEN Raise(descendants.raised)
       ELSE IF ~KeepEntry(descendant_accept_list) THEN Return(all_descendants)
       ELSE IF sanitized_entity_name.raised # "none" THEN sanitized_entity_name
       ELSE IF sanitized_descendants.raised # "none" THEN sanitized_descendants
       ELSE Return([k \in DOMAIN all_descendants \cup {sanitized_entity_name.value} |->
                       IF k = sanitized_entity_name.value
                       THEN sanitized_descendants.value
                       ELSE all_descendants[k]])

RECURSIVE EntityEach(_, _, _, _, _)
EntityEach(todo, g, accept_list, organoids_by_ontology_term_id, out) ==
    IF todo = {} \/ out.raised # "none" THEN out
    ELSE LET entity_anme == CHOOSE x \in todo : TRUE IN
         EntityEach(todo \ {entity_anme}, g, accept_list, organoids_by_ontology_term_id,
                    DescendantsEntry(entity_anme, g, accept_list,
                                     organoids_by_ontology_term_id, out.value))

\* One pass of `for idx, entity_set in enumerate(entity_hierarchy)` for a tier
\* that has tiers below it.
TierPass(entity_hierarchy, idx, g, all_descendants) ==
    LET accept_list == AcceptList(entity_hierarchy, idx) IN
    EntityEach(entity_hierarchy[idx], g, accept_list,
               key_organoids_by_ontology_term_id(accept_list), Return(all_descendants))

InitTier ==
    /\ codec = Idle
    /\ BuildIdle
    /\ closure = Idle
    /\ anc = Idle
    /\ \E h \in [1..NumTiers -> TierSets], g \in Graphs(BuildNodes, MaxEdges) :
         /\ g.nodes = Endpoints(g.edges)
         /\ tier = [pc |-> "loop", entity_hierarchy |-> h, graph |-> g, idx |-> 1,
                    all_descendants |-> <<>>]

\* A tier with tiers below it: every entity of the tier gets its entry.
ProcessTier ==
    /\ tier.pc = "loop"
    /\ tier.idx < Len(tier.entity_hierarchy)
    /\ LET out == TierPass(tier.entity_hierarchy, tier.idx, tier.graph, tier.all_descendants) IN
         /\ out.raised = "none"
         /\ tier' = [tier EXCEPT !.all_descendants = out.value, !.idx = @ + 1]
    /\ UNCHANGED <<codec, buildVars, closure, anc>>

\* An exception in the pass of a tier ends the function; nothing is written.
RaiseInTier ==
    /\ tier.pc = "loop"
    /\ tier.idx < Len(tier.entity_hierarchy)
    /\ LET out == TierPass(tier.entity_hierarchy, tier.idx, tier.graph, tier.all_descendants) IN
         /\ out.raised # "none"
         /\ tier' = [tier EXCEPT !.pc = out.raised]
    /\ UNCHANGED <<codec, buildVars, closure, anc>>

\* `if not accept_lists: continue`: the last tier has no tiers below it.
SkipLastTier ==
    /\ tier.pc = "loop"
    /\ tier.idx = Len(tier.entity_hierarchy)
    /\ tier' = [tier EXCEPT !.idx = @ + 1]
    /\ UNCHANGED <<codec, buildVars, closure, anc>>

\* json.dump(all_descendants, f)
WriteDescendants ==
    /\ tier.pc = "loop"
    /\ tier.idx > Len(tier.entity_hierarchy)
    /\ tier' = [tier EXCEPT !.pc = "written"]
    /\ UNCHANGED <<codec, buildVars, closure, anc>>

NextTier == ProcessTier \/ RaiseInTier \/ SkipLastTier \/ WriteDescendants

SpecTier == InitTier /\ [][NextTier]_vars

\* The nodes reached from some node of S by one edge, S included; no edge is
\* followed out of a variant.
Down(g, S) == S \cup {e[2] : e \in {d \in g.edges : d[1] \in S /\ ~IsVariant(d[1])}}

\* Every node reached from t by following one or more outgoing edges.
DescendantClosure(g, t) == Iterate(Down, g, {t}, Cardinality(g.nodes)) \ {t}

\* The writable form of a set of well-formed internal names.
Writable(S) == {ReplaceChar(x, "_", ":") : x \in S}

\* The union of the tiers strictly below tier i.
Below(i) == UNION {tier.entity_hierarchy[j] : j \in (i + 1)..Len(tier.entity_hierarchy)}

\* The organoid names of tier i's acceptable set whose stem is t or a descendant
\* of t.
SplicedOrganoids(i, t) ==
    {v \in Below(i) :
        /\ Contains(v, ORGANOID)
        /\ Remove(v, <<" ">> \o ORGANOID) \in DescendantClosure(tier.graph, t) \cup {t}}

\* What tier i keeps for t: the descendants of t in the tiers below i, and the
\* organoids spliced in.
Kept(i, t) == (DescendantClosure(tier.graph, t) \cap Below(i)) \cup SplicedOrganoids(i, t)

\* The tiers other than the last that hold t and keep something for it.
EmittingTiers(t) ==
    {i \in 1..(Len(tier.entity_hierarchy) - 1) :
        t \in tier.entity_hierarchy[i] /\ Kept(i, t) # {}}

Max(S) == CHOOSE m \in S : \A x \in S : x <= m

\* The entry of term t in the mapping, as a set; {} when t has no entry.
EntryOf(t) ==
    IF ReplaceChar(t, "_", ":") \in DOMAIN tier.all_descendants
    THEN BagToSet(tier.all_descendants[ReplaceChar(t, "_", ":")])
    ELSE {}

TierExample == <<{A}, {B}, {C}>>

\* C7 (as stated): in the mapping written, for every tier i but the last and
\* every term t of tier i for which something is kept, the entry of t is exactly
\* the descendants of t in the tiers strictly below i plus the organoids spliced
\* in, also when t lies in more than one tier.
C7_TierRestrictionEveryTier ==
    tier.pc = "written" =>
        \A i \in 1..(Len(tier.entity_hierarchy) - 1) :
            \A t \in tier.entity_hierarchy[i] :
                Kept(i, t) # {} => EntryOf(t) = Writable(Kept(i, t))

\* C7 (amended): in the mapping written, the entry of every term t that some
\* tier but the last keeps something for is exactly what the last such tier
\* keeps for it: the descendants of t in the tiers strictly below that tier plus
\* the organoids spliced in.  Tiers [{A},{B},{C}] with edges A->B, B->C, A->C
\* give A -> {B, C} and B -> {C}.
C7_TierRestriction ==
    tier.pc = "written" =>
        /\ \A i \in 1..(Len(tier.entity_hierarchy) - 1) :
              \A t \in tier.entity_hierarchy[i] :
                  EmittingTiers(t) # {} =>
                      EntryOf(t) = Writable(Kept(Max(EmittingTiers(t)), t))
        /\ (tier.entity_hierarchy = TierExample /\ tier.graph = Diamond) =>
              tier.all_descendants =
                  (<<"U", ":", "1">> :> SetToBag({<<"U", ":", "2">>, <<"U", ":", "3">>}))
                  @@ (<<"U", ":", "2">> :> SetToBag({<<"U", ":", "3">>}))

\* A term of two tiers whose kept sets differ, and the mapping written.
C7_Witness ==
    /\ tier.pc = "written"
    /\ tier.entity_hierarchy = <<{A}, {A, B}, {C}>>
    /\ tier.graph.edges = {<<A, B>>, <<A, C>>}
    /\ tier.all_descendants = (<<"U", ":", "1">> :> SetToBag({<<"U", ":", "3">>}))

\* C8: the mapping never holds a key whose list is empty, and every key is the
\* writable form of a term of a tier other than the last, for which something
\* was kept.
C8_NoEmptyEntry ==
    (tier.pc \in {"loop", "written"}) =>
        \A k \in DOMAIN tier.all_descendants :
            /\ tier.all_descendants[k] # EmptyBag
            /\ BagToSet(tier.all_descendants[k]) # {}
            /\ \E i \in 1..(Len(tier.entity_hierarchy) - 1) :
                  \E t \in tier.entity_hierarchy[i] :
                      k = ReplaceChar(t, "_", ":") /\ Kept(i, t) # {}

\* B, of the second tier, has no descendant and C, of the last tier, has two:
\* neither is a key of the mapping written.
C8_Witness ==
    /\ tier.pc = "written"
    /\ tier.entity_hierarchy = TierExample
    /\ tier.graph.edges = {<<A, B>>, <<C, A>>}
    /\ DOMAIN tier.all_descendants = {<<"U", ":", "1">>}

\* C9: when the pass of tier i is over, the list of every term a of tier i holds
\* the stem and the organoid, in writable form, for every organoid of tier i's
\* acceptable set whose stem is in that set too and is a descendant of a.
C9_OrganoidSplice ==
    (tier.pc = "loop" /\ tier.idx > 1 /\ tier.idx <= Len(tier.entity_hierarchy)) =>
        LET i == tier.idx - 1 IN
        \A a \in tier.entity_hierarchy[i] :
            \A v \in Below(i) :
                LET stem == Remove(v, <<" ">> \o ORGANOID) IN
                (/\ Contains(v, ORGANOID)
                 /\ stem \in Below(i)
                 /\ stem \in DescendantClosure(tier.graph, a))
                    => Writable({stem, v}) \subseteq EntryOf(a)

C9_Witness ==
    /\ tier.pc = "loop"
    /\ tier.idx = 3
    /\ tier.entity_hierarchy = <<{B}, {A}, {C, Organoid(C)}>>
    /\ tier.graph.edges = {<<A, C>>}
    /\ tier.all_descendants =
           (<<"U", ":", "1">> :>
               SetToBag({<<"U", ":", "3">>, <<"U", ":", "3", " ", "(organoid)">>}))

(***************************************************************************)
(* Ancestor mapping: the production terms and key_ancestors_by_entity      *)
(***************************************************************************)

\* The ontology_term_id values the dataset index may carry: three terms, an
\* organoid, an ID with a stray "_", and one without ":".
CatalogIds == {<<"U", ":", "1">>, <<"U", ":", "2">>, <<"U", ":", "3">>,
               <<"U", ":", "3", " ", "(organoid)">>,
               <<"U", "_", "1", ":", "2">>, <<"U", "1">>}

\* Largest number of distinct IDs in the dataset index.
MaxCatalog == 2

\* prodTissueSet.add(reformat_ontology_term_id(id, False)) for every id: the set
\* of internal names, or the ValueError of an ID that is rejected.
LoadProd(ids) ==
    IF \E id \in ids : reformat_ontology_term_id(id, FALSE).raised # "none"
    THEN Raise("ValueError")
    ELSE Return({reformat_ontology_term_id(id, FALSE).value : id \in ids})

\* The list of one entity's ancestors in writable form.
SanitizedAncestors(entity_name, g) ==
    LET descendants == list_ancestors(entity_name, g, Fresh, 1) IN
    IF descendants.raised # "none" THEN Raise(descendants.raised)
    ELSE Sanitize(SetToBag(descendants.set))

RECURSIVE KeyEach(_, _, _)
KeyEach(todo, g, out) ==
    IF todo = {} \/ out.raised # "none" THEN out
    ELSE LET entity_name == CHOOSE x \in todo : TRUE
             sanitized_entity_name == reformat_ontology_term_id(entity_name, TRUE)
             sanitized_ancestors == SanitizedAncestors(entity_name, g)
         IN KeyEach(todo \ {entity_name}, g,
                IF sanitized_ancestors.raised = "RecursionError" THEN sanitized_ancestors
                ELSE IF sanitized_entity_name.raised # "none" THEN sanitized_entity_name
                ELSE IF sanitized_ancestors.raised # "none" THEN sanitized_ancestors
                ELSE Return([k \in DOMAIN out.value \cup {sanitized_entity_name.value} |->
                                IF k = sanitized_entity_name.value
                                THEN sanitized_ancestors.value
                                ELSE out.value[k]]))

\* Mutation: only the entities that are nodes of the graph get an entry.
KeyAncestorsOfGraphNodes(names, g) == KeyEach(names \cap g.nodes, g, Return(<<>>))

\* key_ancestors_by_entity(entity_names, graph)
key_ancestors_by_entity(names, g) == KeyEach(names, g, Return(<<>>))

InitAncestors ==
    /\ codec = Idle
    /\ BuildIdle
    /\ closure = Idle
    /\ tier = Idle
    /\ \E ids \in SUBSET CatalogIds, g \in Graphs(BuildNodes, MaxEdges) :
         /\ Cardinality(ids) <= MaxCatalog
         /\ g.nodes = Endpoints(g.edges)
         /\ anc = [pc |-> "fetched", ids |-> ids, prod |-> {}, graph |-> g,
                   ancestors_by_entity |-> <<>>]

\* The production terms are read off the dataset index.
LoadProduction ==
    /\ anc.pc = "fetched"
    /\ LoadProd(anc.ids).raised = "none"
    /\ anc' = [anc EXCEPT !.prod = LoadProd(anc.ids).value, !.pc = "loaded"]
    /\ UNCHANGED <<codec, buildVars, closure, tier>>

\* An ID without exactly one ":" ends the script.
LoadRaises ==
    /\ anc.pc = "fetched"
    /\ LoadProd(anc.ids).raised # "none"
    /\ anc' = [anc EXCEPT !.pc = LoadProd(anc.ids).raised]
    /\ UNCHANGED <<codec, buildVars, closure, tier>>

\* write_ancestors_by_entity: the mapping is computed and written.
WriteAncestors ==
    /\ anc.pc = "loaded"
    /\ LET out == key_ancestors_by_entity(anc.prod, anc.graph) IN
         /\ out.raised = "none"
         /\ anc' = [anc EXCEPT !.ancestors_by_entity = out.value, !.pc = "written"]
    /\ UNCHANGED <<codec, buildVars, closure, tier>>

\* An exception in key_ancestors_by_entity: nothing is written.
WriteAncestorsRaises ==
    /\ anc.pc = "loaded"
    /\ LET out == key_ancestors_by_entity(anc.prod, anc.graph) IN
         /\ out.raised # "none"
         /\ anc' = [anc EXCEPT !.pc = out.raised]
    /\ UNCHANGED <<codec, buildVars, closure, tier>>

NextAncestors == LoadProduction \/ LoadRaises \/ WriteAncestors \/ WriteAncestorsRaises

SpecAncestors == InitAncestors /\ [][NextAncestors]_vars

\* C10: the keys of the ancestor mapping written are exactly the writable forms
\* of the production terms, one key per term (they are the IDs of the dataset
\* index), and the list under each key holds the key itself.
C10_AncestorKeys ==
    anc.pc = "written" =>
        /\ DOMAIN anc.ancestors_by_entity = Writable(anc.prod)
        /\ Cardinality(DOMAIN anc.ancestors_by_entity) = Cardinality(anc.prod)
        /\ DOMAIN anc.ancestors_by_entity = anc.ids
        /\ \A k \in DOMAIN anc.ancestors_by_entity :
              k \in BagToSet(anc.ancestors_by_entity[k])

\* A term of the graph, with an ancestor, and an organoid that is no node.
C10_Witness ==
    /\ anc.pc = "written"
    /\ anc.prod = {B, Organoid(C)}
    /\ anc.graph.edges = {<<A, B>>, <<B, C>>}
    /\ anc.ancestors_by_entity =
           (<<"U", ":", "2">> :> SetToBag({<<"U", ":", "1">>, <<"U", ":", "2">>}))
           @@ (<<"U", ":", "3", " ", "(organoid)">> :>
                  SetToBag({<<"U", ":", "3", " ", "(organoid)">>}))

(***************************************************************************)
(* Exceptions, revisits and termination                                    *)
(***************************************************************************)

\* The production terms whose own name and whose ancestors all convert.
Convertible(t) ==
    /\ reformat_ontology_term_id(t, TRUE).raised = "none"
    /\ \A a \in AncestorClosure(anc.graph, t) :
          reformat_ontology_term_id(a, TRUE).raised = "none"

\* C11: a ValueError of the codec while one production term (or one of its
\* ancestors) is converted drops that term only: the mapping is still produced
\* and holds the entry of every other term.
C11_CodecErrorOmitsOneTerm ==
    (/\ anc.pc \notin {"idle", "fetched", "loaded", "RecursionError"}
     /\ anc.prod # {})
        => /\ anc.pc = "written"
           /\ DOMAIN anc.ancestors_by_entity =
                  Writable({t \in anc.prod : Convertible(t)})

\* C12: within one call of list_ancestors or list_descendants that returns, the
\* predecessors (successors) of every node are looked up at most once.
C12_NoRevisit ==
    closure.pc = "call" =>
        /\ closure.ancestors.raised = "none" =>
              \A n \in DOMAIN closure.ancestors.lookups : closure.ancestors.lookups[n] <= 1
        /\ closure.descendants.raised = "none" =>
              \A n \in DOMAIN closure.descendants.lookups : closure.descendants.lookups[n] <= 1

\* C13: every call of list_ancestors and of list_descendants comes to an end by
\* itself, also on a graph with a directed cycle or a self-loop: the recursion
\* is never cut off by the interpreter.
C13_ClosureTerminates ==
    closure.pc = "call" =>
        /\ closure.ancestors.raised # "RecursionError"
        /\ closure.descendants.raised # "RecursionError"

(***************************************************************************)
(* Termination and result of the build                                     *)
(***************************************************************************)

\* The build runs to its end without outside help: a step that can be taken is
\* taken.
SpecLive == Spec /\ WF_vars(Next)

\* The parent->child pairs the build reads from the provider.
ProviderRelation ==
    {pc \in BuildNodes \X BuildNodes :
        \E row \in provider[pc[1]] : ChildOf(row) = pc[2]}

\* One more than the largest number of rows the provider returns for a term.
FrameWeight == 1 + Max({Cardinality(provider[n]) : n \in DOMAIN provider})

RECURSIVE PendingRows(_)
\* The rows still to be looped over in the calls of s, plus one return each.
PendingRows(s) ==
    IF s = <<>> THEN 0
    ELSE Cardinality(s[Len(s)].rows) + 1 + PendingRows(SubSeq(s, 1, Len(s) - 1))

\* What is left of the build: the anchors not yet begun, the terms not yet in
\* the graph, the rows and returns of the calls in progress, the final return.
BuildMeasure ==
    (FrameWeight + 1) * (Len(entity_names) + 1 - next_anchor)
        + FrameWeight * Cardinality(BuildNodes \ graph.nodes)
        + PendingRows(stack)
        + (IF bpc = "build" THEN 1 ELSE 0)

\* C14: the build terminates for every anchor list and every child relation,
\* with cycles, self-references and diamonds: every step of the build lowers a
\* natural number, and the build reaches its return.
C14_BuildTerminates ==
    /\ [](BuildMeasure >= 0)
    /\ [][BuildMeasure' < BuildMeasure]_vars
    /\ <>(bpc = "done")

\* A build that ended on a relation with a cycle through all terms.
C14_Witness ==
    /\ bpc = "done"
    /\ {<<A, B>>, <<B, C>>, <<C, A>>} \subseteq ProviderRelation
    /\ graph.nodes = BuildNodes

Anchors == {entity_names[i] : i \in DOMAIN entity_names}

\* The anchors and every term reachable from one through valid children.
ExpectedNodes ==
    Anchors \cup
    UNION {DescendantClosure([nodes |-> BuildNodes, edges |-> ProviderRelation], a) :
              a \in Anchors}

\* Every parent->child pair of the provider whose parent is such a term.
ExpectedEdges == {pc \in ProviderRelation : pc[1] \in ExpectedNodes}

\* C15: the built subgraph depends on the anchor set and the child relation
\* only: its nodes are the anchors and all that is reachable from them, its
\* edges are all parent->child pairs of the provider below those nodes,
\* whatever the order of the anchors and of the children.
C15_SubgraphIsProviderClosure ==
    bpc = "done" =>
        /\ graph.nodes = ExpectedNodes
        /\ graph.edges = ExpectedEdges

(***************************************************************************)
(* Cell-culture names in the tier filter                                   *)
(***************************************************************************)

\* The cell-culture names of tier i's acceptable set.
CellCulturesBelow(i) == {v \in Below(i) : Contains(v, CELL_CULTURE)}

====
